---- MODULE Spec2Model ----
(***************************************************************************)
(* Model of the annotation state machine of Image-Editor-Plugin:           *)
(* python/image/rectangle.py (Rectangle) and python/image/image.py (Image).*)
(* Pixel buffers are numpy arrays, which Python shares by reference, so    *)
(* they live in a heap of buffers addressed by identifiers.                *)
(***************************************************************************)
EXTENDS Integers, Sequences, FiniteSets, TLC

VARIABLES image, heap, raised, mouse_callback, completions, undos,
          editor, files, driver, main, calls, last_call, keyboard,
          rectangle, folder

vars == <<image, heap, raised, mouse_callback, completions, undos,
          editor, files, driver, main, calls, last_call, keyboard,
          rectangle, folder>>

(* ------------------------------ bounds -------------------------------- *)

\* Mouse events are not delivered once the in-progress rectangle holds this
\* many vertices (the code itself sets no limit).
MaxVertices == 3

\* Rectangles are not completed once this many completions have happened.
MaxCompletions == 2

\* The number of .jpg files in the image folder.
MaxImages == 2

\* The number of method calls and events a run of the ImageEditor makes.
MaxCalls == 7

\* The number of tokens the listener puts on the hotkey queue.
MaxTokens == 2

\* The number of steps of the clock while the listener runs.
MaxTime == 2

\* The number of files in a folder that is listed.
MaxFiles == 3

(* ------------------------------ inputs -------------------------------- *)

\* Pixel coordinates of the (2 x 2) image that cv2.imread returns.
Coords == (0..1) \X (0..1)

\* Mouse positions of the left-button-down events delivered: one corner.
DownClicks == {<<0, 1>>}

\* Mouse positions of the left-button-up events delivered: that corner (a
\* click without a drag) and the opposite one.
UpClicks == {<<0, 1>>, <<1, 0>>}

Clicks == DownClicks \cup UpClicks

\* The editing colour "#550000", one character per element.
EditingColor == <<"#", "5", "5", "0", "0", "0", "0">>

\* Another editing colour, "#00ff7F".
OtherColor == <<"#", "0", "0", "f", "f", "7", "F">>

Colors == {EditingColor, OtherColor}

\* The characters int(s, 16) reads as digits.
HexChars == {"0", "1", "2", "3", "4", "5", "6", "7", "8", "9",
             "a", "b", "c", "d", "e", "f", "A", "B", "C", "D", "E", "F"}

\* Colour codes "#RRGGBB" given to Image: every digit occurs as the first
\* and as the second digit of a channel.
HexCodes ==
    {<<"#", x, y, y, x, x, x>> : x \in HexChars, y \in {"0", "9", "a", "F"}}
        \cup {EditingColor}

JpgFilePath == "folder\\a.jpg"

WindowName == "a"

\* The pixels cv2.imread returns: every pixel white.
LoadedPixels == [p \in Coords |-> <<255, 255, 255>>]

(* ------------------------------ values -------------------------------- *)

None == "None"

\* The None of Image._current_image, as a buffer identifier.
NoImage == 0

\* One live buffer per Image object, one per snapshot, one for a copy in use.
BufIds == 1..(MaxCompletions + MaxImages + 1)

Min(a, b) == IF a <= b THEN a ELSE b

Max(a, b) == IF a >= b THEN a ELSE b

\* A new numpy array: the least identifier not in use.
Alloc(h) == CHOOSE i \in BufIds \ DOMAIN h : \A j \in BufIds \ DOMAIN h : i <= j

\* Reference counting: buffers no object refers to are released.
Collect(h, roots) == [i \in (DOMAIN h) \cap roots |-> h[i]]

(* ----------------------------- Rectangle ------------------------------ *)

Rectangle(color) == [vertices |-> <<>>, color |-> color]

add_vertex(rect, x, y) == [rect EXCEPT !.vertices = Append(@, <<x, y>>)]

num_vertices(rect) == Len(rect.vertices)

\* pop_vertex: list.pop() removes the last element and returns it, and the
\* element returned, a tuple (x, y), is what _vertices is set to.
pop_vertex(rect) == [rect EXCEPT !.vertices = rect.vertices[Len(rect.vertices)]]

\* A Rectangle object on its own, with the class of the value of _vertices:
\* a list of tuples, or a tuple of two integers.
RectangleIdle == [self |-> Rectangle(EditingColor), vertices_class |-> "list"]

to_dict_swapped(rect) ==
    [vertices |-> [i \in 1..Len(rect.vertices) |->
                      [x |-> rect.vertices[i][2], y |-> rect.vertices[i][1]]],
     color |-> rect.color]

to_dict(rect) ==
    [vertices |-> [i \in 1..Len(rect.vertices) |->
                      [x |-> rect.vertices[i][1], y |-> rect.vertices[i][2]]],
     color |-> rect.color]

(* ------------------------------- Image -------------------------------- *)

HexDigits == <<"0", "1", "2", "3", "4", "5", "6", "7", "8", "9",
               "A", "B", "C", "D", "E", "F">>

LowerHexDigits == <<"0", "1", "2", "3", "4", "5", "6", "7", "8", "9",
                    "a", "b", "c", "d", "e", "f">>

\* int(c, 16) of one character.
HexValue(c) ==
    IF \E i \in 1..16 : HexDigits[i] = c
    THEN (CHOOSE i \in 1..16 : HexDigits[i] = c) - 1
    ELSE (CHOOSE i \in 1..16 : LowerHexDigits[i] = c) - 1

RECURSIVE lstrip_hash(_)
lstrip_hash(s) ==
    IF s # <<>> /\ Head(s) = "#" THEN lstrip_hash(Tail(s)) ELSE s

hex_to_bgr(hex_code) ==
    LET hex_color == lstrip_hash(hex_code)
    IN  <<16 * HexValue(hex_color[5]) + HexValue(hex_color[6]),
          16 * HexValue(hex_color[3]) + HexValue(hex_color[4]),
          16 * HexValue(hex_color[1]) + HexValue(hex_color[2])>>

hex_to_rgb(hex_code) ==
    LET hex_color == lstrip_hash(hex_code)
    IN  <<16 * HexValue(hex_color[1]) + HexValue(hex_color[2]),
          16 * HexValue(hex_color[3]) + HexValue(hex_color[4]),
          16 * HexValue(hex_color[5]) + HexValue(hex_color[6])>>

\* cv2.rectangle(img, v1, v2, color, -1): fills the box spanned by the two
\* corners, both included.
cv2_rectangle(pixels, v1, v2, color) ==
    [p \in Coords |->
        IF /\ Min(v1[1], v2[1]) <= p[1] /\ p[1] <= Max(v1[1], v2[1])
           /\ Min(v1[2], v2[2]) <= p[2] /\ p[2] <= Max(v1[2], v2[2])
        THEN color
        ELSE pixels[p]]

ImageInit(hex_color_code) ==
    [current_rectangle  |-> Rectangle(hex_color_code),
     all_rectangles     |-> <<>>,
     history            |-> <<>>,
     color              |-> hex_color_code,
     is_generated       |-> FALSE,
     original_file_path |-> None,
     current_image      |-> NoImage,
     window_name        |-> None]

\* The buffers an Image refers to: the live one and those of its snapshots.
Refs(img) ==
    ({img.current_image} \ {NoImage})
        \cup {img.history[i].image : i \in 1..Len(img.history)}

generate_metadata_aliased(img, h) ==
    [metadata |-> [original_file_path |-> img.original_file_path,
                   window_name        |-> img.window_name,
                   image              |-> img.current_image,
                   rectangles         |-> [i \in 1..Len(img.all_rectangles) |->
                                              to_dict(img.all_rectangles[i])]],
     heap     |-> h]

\* Returns the metadata and the heap holding the copy of the pixel buffer.
generate_metadata(img, h) ==
    LET copy == Alloc(h)
    IN  [metadata |-> [original_file_path |-> img.original_file_path,
                       window_name        |-> img.window_name,
                       image              |-> copy,
                       rectangles         |-> [i \in 1..Len(img.all_rectangles) |->
                                                  to_dict(img.all_rectangles[i])]],
         heap     |-> h @@ (copy :> h[img.current_image])]

RECURSIVE add_vertices(_, _)
add_vertices(rect, vertices) ==
    IF vertices = <<>>
    THEN rect
    ELSE add_vertices(add_vertex(rect, Head(vertices).x, Head(vertices).y),
                      Tail(vertices))

load_rectangles(metadata) ==
    [i \in 1..Len(metadata.rectangles) |->
        add_vertices(Rectangle(metadata.rectangles[i].color),
                     metadata.rectangles[i].vertices)]

load_image_from_metadata_pixels_only(img, metadata) ==
    [img EXCEPT !.original_file_path = metadata.original_file_path,
                !.window_name        = metadata.window_name,
                !.current_image      = metadata.image,
                !.is_generated       = TRUE]

load_image_from_metadata(img, metadata) ==
    [img EXCEPT !.original_file_path = metadata.original_file_path,
                !.window_name        = metadata.window_name,
                !.current_image      = metadata.image,
                !.all_rectangles     = load_rectangles(metadata),
                !.is_generated       = TRUE]

\* The outcome of one call: the image, the heap and the exception raised.
Outcome(img, h, exc) == [image |-> img, heap |-> h, raised |-> exc]

load_image_from_jpg_file(img, h, jpg_file_path, window_name) ==
    LET buf == Alloc(h)
    IN  Outcome([img EXCEPT !.original_file_path = jpg_file_path,
                            !.current_image      = buf,
                            !.window_name        = window_name,
                            !.is_generated       = TRUE],
                h @@ (buf :> LoadedPixels),
                "none")

EVENT_LBUTTONDOWN == "EVENT_LBUTTONDOWN"

EVENT_LBUTTONUP == "EVENT_LBUTTONUP"

draw_rectangle_snapshot_late(img, h, event, x, y) ==
    IF event = EVENT_LBUTTONDOWN
    THEN Outcome([img EXCEPT !.current_rectangle = add_vertex(@, x, y)], h, "none")
    ELSE
      LET rect == add_vertex(img.current_rectangle, x, y)
      IN  IF num_vertices(rect) < 2
          THEN Outcome([img EXCEPT !.current_rectangle = rect], h, "IndexError")
          ELSE
            LET color   == hex_to_rgb(rect.color)
                painted == [h EXCEPT ![img.current_image] =
                               cv2_rectangle(@, rect.vertices[1], rect.vertices[2], color)]
                md      == generate_metadata([img EXCEPT !.current_rectangle = rect],
                                             painted)
            IN  Outcome([img EXCEPT !.history = Append(@, md.metadata),
                                    !.all_rectangles = Append(@, rect),
                                    !.current_rectangle = Rectangle(img.color)],
                        md.heap,
                        "none")

draw_rectangle_append_first(img, h, event, x, y) ==
    IF event = EVENT_LBUTTONDOWN
    THEN Outcome([img EXCEPT !.current_rectangle = add_vertex(@, x, y)], h, "none")
    ELSE
      LET rect == add_vertex(img.current_rectangle, x, y)
      IN  IF num_vertices(rect) < 2
          THEN Outcome([img EXCEPT !.current_rectangle = rect], h, "IndexError")
          ELSE
            LET color   == hex_to_rgb(rect.color)
                md      == generate_metadata([img EXCEPT !.all_rectangles = Append(@, rect)],
                                             h)
                painted == [md.heap EXCEPT ![img.current_image] =
                               cv2_rectangle(@, rect.vertices[1], rect.vertices[2], color)]
            IN  Outcome([img EXCEPT !.history = Append(@, md.metadata),
                                    !.all_rectangles = Append(@, rect),
                                    !.current_rectangle = Rectangle(img.color)],
                        painted,
                        "none")

draw_rectangle(img, h, event, x, y) ==
    IF event = EVENT_LBUTTONDOWN
    THEN Outcome([img EXCEPT !.current_rectangle = add_vertex(@, x, y)], h, "none")
    ELSE
      LET rect == add_vertex(img.current_rectangle, x, y)
      IN  IF num_vertices(rect) < 2
          THEN \* vertices[1] of a one-element list: the callback ends here
               Outcome([img EXCEPT !.current_rectangle = rect], h, "IndexError")
          ELSE
            LET color   == hex_to_rgb(rect.color)
                md      == generate_metadata([img EXCEPT !.current_rectangle = rect], h)
                painted == [md.heap EXCEPT ![img.current_image] =
                               cv2_rectangle(@, rect.vertices[1], rect.vertices[2], color)]
            IN  Outcome([img EXCEPT !.history = Append(@, md.metadata),
                                    !.all_rectangles = Append(@, rect),
                                    !.current_rectangle = Rectangle(img.color)],
                        painted,
                        "none")

undo_unchecked(img, h) ==
    IF Len(img.history) = 0
    THEN Outcome(img, h, "IndexError")
    ELSE Outcome(load_image_from_metadata(
                     [img EXCEPT !.history = SubSeq(@, 1, Len(@) - 1)],
                     img.history[Len(img.history)]),
                 h, "none")

undo_oldest(img, h) ==
    IF Len(img.history) = 0
    THEN Outcome(img, h, "UserWarning")
    ELSE Outcome(load_image_from_metadata(
                     [img EXCEPT !.history = Tail(@)], Head(img.history)),
                 h, "none")

undo_peek(img, h) ==
    IF Len(img.history) = 0
    THEN Outcome(img, h, "UserWarning")
    ELSE Outcome(load_image_from_metadata(img, img.history[Len(img.history)]),
                 h, "none")

undo(img, h) ==
    IF Len(img.history) = 0
    THEN Outcome(img, h, "UserWarning")
    ELSE Outcome(load_image_from_metadata(
                     [img EXCEPT !.history = SubSeq(@, 1, Len(@) - 1)],
                     img.history[Len(img.history)]),
                 h, "none")

update_restarting(img, h) ==
    IF ~img.is_generated
    THEN Outcome(img, h, "ImageException")
    ELSE Outcome([img EXCEPT !.current_rectangle = Rectangle(img.color)], h, "none")

update(img, h) ==
    IF ~img.is_generated
    THEN Outcome(img, h, "ImageException")
    ELSE Outcome(img, h, "none")


(* ---------------------------- ImageEditor ----------------------------- *)

\* The files os.listdir returns for the image folder, joined to its path.
FolderPaths == <<"folder\\a.jpg", "folder\\b.jpg", "folder\\c.jpg", "folder\\d.jpg">>

jpg_file_paths == SubSeq(FolderPaths, 1, MaxImages)

OutputFolderPath == "out"

\* os.path.split(path)[1] of the paths above.
basename(path) ==
    CASE path = "folder\\a.jpg" -> "a.jpg"
      [] path = "folder\\b.jpg" -> "b.jpg"
      [] path = "folder\\c.jpg" -> "c.jpg"
      [] path = "folder\\d.jpg" -> "d.jpg"

\* re.findall("^.*\\\\(.*)\.[^\.]+$", path)[0] of the paths above.
get_file_name_without_extension(path) ==
    CASE path = "folder\\a.jpg" -> "a"
      [] path = "folder\\b.jpg" -> "b"
      [] path = "folder\\c.jpg" -> "c"
      [] path = "folder\\d.jpg" -> "d"

\* os.path.join(folder_path, file_name) for the output folder.
path_join(folder_path, file_name) ==
    CASE file_name = "a.jpg" -> "out\\a.jpg"
      [] file_name = "b.jpg" -> "out\\b.jpg"
      [] file_name = "c.jpg" -> "out\\c.jpg"
      [] file_name = "d.jpg" -> "out\\d.jpg"

\* cv2.imwrite(path, pixels): the file system with the file (over)written.
imwrite(fs, path, pixels) ==
    [f \in (DOMAIN fs) \cup {path} |-> IF f = path THEN pixels ELSE fs[f]]

\* _current_image is <<>> for None and <<img>> for an Image object;
\* window_shown says whether the window of the current image exists (and
\* with it the mouse callback that Image.update registers).
ImageEditorInit(editing_color) ==
    [current_image       |-> <<>>,
     color               |-> editing_color,
     all_modified_images |-> <<>>,
     window_shown        |-> FALSE]

\* The outcome of a call of the editor: the editor, the heap, the files and
\* the exception raised.
EdOutcome(ed, h, fs, exc) == [editor |-> ed, heap |-> h, files |-> fs, raised |-> exc]

EdRefs(ed) ==
    UNION ({Refs(ed.current_image[i]) : i \in 1..Len(ed.current_image)}
           \cup {Refs(ed.all_modified_images[i]) : i \in 1..Len(ed.all_modified_images)})

editor_load_image_from_jpg_reusing(ed, h, fs, image_file_path) ==
    LET window_name == get_file_name_without_extension(image_file_path)
        target      == IF ed.current_image = <<>>
                       THEN ImageInit(ed.color) ELSE ed.current_image[1]
        out         == load_image_from_jpg_file(target, h, image_file_path, window_name)
    IN  EdOutcome([ed EXCEPT !.current_image = <<out.image>>,
                             !.window_shown  = FALSE],
                  out.heap, fs, "none")

editor_load_image_from_jpg(ed, h, fs, image_file_path) ==
    LET window_name == get_file_name_without_extension(image_file_path)
        out         == load_image_from_jpg_file(ImageInit(ed.color), h,
                                                image_file_path, window_name)
    IN  EdOutcome([ed EXCEPT !.current_image = <<out.image>>,
                             !.window_shown  = FALSE],
                  out.heap, fs, "none")

\* save_image with file_name = None; the metadata copy is dropped at return.
save_image(img, h, fs, folder_path) ==
    LET image_metadata     == generate_metadata(img, h).metadata
        original_file_path == image_metadata.original_file_path
        file_name          == basename(original_file_path)
        new_image_path     == path_join(folder_path, file_name)
    IN  imwrite(fs, new_image_path, h[img.current_image])

save_current_image(ed, h, fs, folder_path) ==
    IF ed.current_image = <<>>
    THEN \* None.generate_metadata()
         EdOutcome(ed, h, fs, "AttributeError")
    ELSE EdOutcome(ed, h, save_image(ed.current_image[1], h, fs, folder_path), "none")

close_current_image_keeping(ed, h, fs) ==
    IF ed.current_image = <<>>
    THEN EdOutcome(ed, h, fs, "none")
    ELSE EdOutcome([ed EXCEPT !.all_modified_images = Append(@, ed.current_image[1]),
                              !.window_shown        = FALSE],
                   h, fs, "none")

close_current_image(ed, h, fs) ==
    IF ed.current_image = <<>>
    THEN EdOutcome(ed, h, fs, "none")
    ELSE EdOutcome([ed EXCEPT !.all_modified_images = Append(@, ed.current_image[1]),
                              !.current_image       = <<>>,
                              !.window_shown        = FALSE],
                   h, fs, "none")

editor_close(ed, h, fs) == close_current_image(ed, h, fs)

editor_undo(ed, h, fs) ==
    IF ed.current_image = <<>>
    THEN \* None.undo()
         EdOutcome(ed, h, fs, "AttributeError")
    ELSE LET out == undo(ed.current_image[1], h)
         IN  EdOutcome([ed EXCEPT !.current_image = <<out.image>>],
                       out.heap, fs, out.raised)

editor_refresh(ed, h, fs) ==
    IF ed.current_image = <<>>
    THEN EdOutcome(ed, h, fs, "ImageException")
    ELSE LET out == update(ed.current_image[1], h)
         IN  EdOutcome([ed EXCEPT !.current_image = <<out.image>>,
                                  !.window_shown  = (out.raised = "none")],
                       out.heap, fs, out.raised)

\* The mouse callback of the window of the current image.
editor_mouse_event(ed, h, fs, event, p) ==
    LET out == draw_rectangle(ed.current_image[1], h, event, p[1], p[2])
    IN  EdOutcome([ed EXCEPT !.current_image = <<out.image>>],
                  out.heap, fs, out.raised)

(* ---------------------- idle values of components --------------------- *)

NoFiles == << >>

(* ------------------------- listing the folder ------------------------ *)

\* The path of the image folder and file names, one character per element.
ImageFolderPath == <<"f">>

JpgSuffix == <<".", "j", "p", "g">>

FileNames ==
    {<<"a">> \o JpgSuffix,
     <<"b">> \o JpgSuffix,
     <<"a", ".", "t", "x", "t">>,
     <<"b">> \o JpgSuffix \o <<".", "b", "a", "k">>,
     <<"j", "p", "g">>}

\* re.findall(".*(\.jpg)$", file_name): the list of the matches of the
\* group, one if the name ends in ".jpg" and none otherwise.
re_findall_jpg(file_name) ==
    IF /\ Len(file_name) >= Len(JpgSuffix)
       /\ SubSeq(file_name, Len(file_name) - Len(JpgSuffix) + 1, Len(file_name))
              = JpgSuffix
    THEN <<JpgSuffix>>
    ELSE <<>>

\* os.path.join(folder_path, file_name).
os_path_join(folder_path, file_name) == folder_path \o <<"\\">> \o file_name

\* x is None, for the list re.findall returns: a list is never None.
is_None(x) == FALSE

RECURSIVE get_all_jpg_file_paths(_, _)
\* get_all_jpg_file_paths, for the list all_files of os.listdir(folder_path).
get_all_jpg_file_paths(folder_path, all_files) ==
    IF all_files = <<>>
    THEN <<>>
    ELSE LET file_name == Head(all_files)
             rest      == get_all_jpg_file_paths(folder_path, Tail(all_files))
         IN  IF ~is_None(re_findall_jpg(file_name))
             THEN <<os_path_join(folder_path, file_name)>> \o rest
             ELSE rest

\* A folder before it is listed.
FolderIdle == [pc |-> "idle", all_files |-> <<>>, jpg_file_paths |-> <<>>]

(* ------------------------------ hotkeys ------------------------------- *)

\* The members of the Key enumeration bound to hotkeys, by the name the
\* keyboard library reports for the key.
Key_ESC == "esc"

Key_D == "d"

Key_CTRL_Z == "ctrl+z"

\* Hotkey(key, delay), the delay in milliseconds.
Hotkey(key, delay) == [class |-> "Hotkey", key |-> key, delay |-> delay]

\* The PredefinedHotkey enumeration: member name |-> member value.
PredefinedHotkey ==
    [CLOSE_PROGRAM |-> Hotkey(Key_ESC, 1000),
     NEXT_IMAGE    |-> Hotkey(Key_D, 125),
     UNDO          |-> Hotkey(Key_CTRL_Z, 125)]

\* A member of the enumeration: an object with name and value, and no key.
Member(name) == [class |-> "PredefinedHotkey", name |-> name]

Members == {Member(n) : n \in DOMAIN PredefinedHotkey}

\* Whether obj.key can be read; reading it otherwise raises AttributeError.
has_key(obj) == obj.class = "Hotkey"

\* HotkeyListener._generate_hotkeys: key |-> enumeration member.
generate_hotkeys ==
    [k \in {PredefinedHotkey[m.name].key : m \in Members} |->
        CHOOSE m \in Members : PredefinedHotkey[m.name].key = k]

\* The keyboard events read_event returns: presses and releases of keys.
KeyNames == {Key_ESC, Key_D, Key_CTRL_Z, "a"}

KeyEvents == [name : KeyNames, event_type : {"down", "up"}]

\* The keyboard and the clock before anything happened: the time in
\* milliseconds, the keys held down, and, as a history variable, the time
\* at which each token of driver.enqueued was put on the queue.
KeyboardIdle == [now |-> 0, pressed |-> {}, put_times |-> <<>>]

(* ------------------------------- Driver ------------------------------- *)

\* Driver.__init__; enqueued and executed are history variables listing the
\* tokens put on, and taken from, the hotkey queue, and tick lists the steps
\* of the most recent pass of the loop of run.
DriverIdle ==
    [pc             |-> "idle",
     index          |-> 0,
     current_hotkey |-> <<>>,
     hotkey_queue   |-> <<>>,
     listener_alive |-> FALSE,
     stop_event     |-> FALSE,
     enqueued       |-> <<>>,
     executed       |-> <<>>,
     tick           |-> <<>>]

\* The driver, the editor, the buffers and the files after a step, and the
\* exception the step ended with.
World(d, ed, h, fs, exc) ==
    [driver |-> d, editor |-> ed, heap |-> h, files |-> fs, raised |-> exc]

\* What Driver.run does with an exception of _execute_hotkey: print it and
\* go on, for the others shutdown.
is_reported(exc) == exc \in {"Empty", "UserWarning"}

shutdown_saving(w, exc) ==
    LET saved  == save_current_image(w.editor, w.heap, w.files, OutputFolderPath)
        closed == editor_close(saved.editor, saved.heap, saved.files)
    IN  World([w.driver EXCEPT !.pc = "joining", !.stop_event = TRUE],
              closed.editor, closed.heap, closed.files, exc)

shutdown_returning(w, exc) ==
    LET closed == editor_close(w.editor, w.heap, w.files)
    IN  World([w.driver EXCEPT !.stop_event = TRUE],
              closed.editor, closed.heap, closed.files, exc)

\* Driver.shutdown up to the join of the listener thread.
shutdown(w, exc) ==
    LET closed == editor_close(w.editor, w.heap, w.files)
    IN  World([w.driver EXCEPT !.pc = "joining", !.stop_event = TRUE],
              closed.editor, closed.heap, closed.files, exc)

\* Driver._execute_hotkey; pc "joining" on return says shutdown was called.
execute_hotkey(w, hotkey) ==
    IF ~has_key(hotkey)
    THEN World(w.driver, w.editor, w.heap, w.files, "AttributeError")
    ELSE IF hotkey.key = PredefinedHotkey.NEXT_IMAGE.key
    THEN LET saved == save_current_image(w.editor, w.heap, w.files, OutputFolderPath)
         IN  IF saved.raised # "none"
             THEN World(w.driver, saved.editor, saved.heap, saved.files, saved.raised)
             ELSE LET closed == close_current_image(saved.editor, saved.heap, saved.files)
                  IN  World(w.driver, closed.editor, closed.heap, closed.files, "none")
    ELSE IF hotkey.key = PredefinedHotkey.CLOSE_PROGRAM.key
    THEN shutdown(w, "none")
    ELSE IF hotkey.key = PredefinedHotkey.UNDO.key
    THEN LET out == editor_undo(w.editor, w.heap, w.files)
         IN  World(w.driver, out.editor, out.heap, out.files, out.raised)
    ELSE w

\* The for statement of run taking the next path: load it, or shutdown.
run_next_image(w, paths) ==
    IF w.driver.index < Len(paths)
    THEN LET out == editor_load_image_from_jpg(w.editor, w.heap, w.files,
                                               paths[w.driver.index + 1])
         IN  World([w.driver EXCEPT !.pc = IF out.raised = "none"
                                           THEN "editing" ELSE "crashed",
                                   !.index = @ + 1,
                                   !.current_hotkey = <<>>],
                   out.editor, out.heap, out.files, out.raised)
    ELSE shutdown(w, "none")

\* The test of the while statement of run, after a pass of its body.
run_while(w, paths) ==
    IF w.driver.current_hotkey = <<>>
    THEN w
    ELSE IF ~has_key(w.driver.current_hotkey[1])
    THEN World([w.driver EXCEPT !.pc = "crashed"],
               w.editor, w.heap, w.files, "AttributeError")
    ELSE IF w.driver.current_hotkey[1].key # PredefinedHotkey.NEXT_IMAGE.key
    THEN w
    ELSE run_next_image(w, paths)

\* queue.Queue.get of a queue that is not empty: the token and the rest.
queue_get_last(q) == [item |-> q[Len(q)], rest |-> SubSeq(q, 1, Len(q) - 1)]

queue_get(q) == [item |-> Head(q), rest |-> Tail(q)]

Logged(w, step) == [w EXCEPT !.driver.tick = Append(@, step)]

\* The part of the body of the while statement after the refresh.
run_poll(w, paths) ==
    IF w.driver.hotkey_queue = <<>>
    THEN run_while(w, paths)
    ELSE LET got  == queue_get(w.driver.hotkey_queue)
             w1   == Logged([w EXCEPT !.driver.hotkey_queue   = got.rest,
                                      !.driver.current_hotkey = <<got.item>>,
                                      !.driver.executed       = Append(@, got.item)],
                            "get")
             done == execute_hotkey(w1, got.item)
         IN  IF done.driver.pc = "joining"
             THEN done
             ELSE IF done.raised = "none" \/ is_reported(done.raised)
             THEN run_while(done, paths)
             ELSE shutdown(done, done.raised)

run_body_poll_first(w, paths) ==
    LET polled == run_poll([w EXCEPT !.driver.tick = <<>>, !.raised = "none"], paths)
    IN  IF polled.driver.pc # "editing" \/ polled.editor.current_image = <<>>
        THEN polled
        ELSE LET out == editor_refresh(polled.editor, polled.heap, polled.files)
             IN  Logged(World(polled.driver, out.editor, out.heap, out.files,
                              polled.raised), "refresh")

\* One pass of the body of the while statement of run and the test after it.
run_body(w, paths) ==
    LET out == editor_refresh(w.editor, w.heap, w.files)
        w1  == Logged(World([w.driver EXCEPT !.tick = <<>>],
                            out.editor, out.heap, out.files, out.raised),
                      "refresh")
    IN  IF out.raised # "none"
        THEN [w1 EXCEPT !.driver.pc = "crashed"]
        ELSE run_poll(w1, paths)

\* run up to the first pass of the loop.
run_start(w, paths) ==
    IF Len(paths) = 0
    THEN [w EXCEPT !.driver.pc = "returned"]
    ELSE run_next_image([w EXCEPT !.driver.listener_alive = TRUE], paths)

\* One pass of the loop of HotkeyListener.run, for the event read.
listener_run(d, keyboard_event) ==
    LET key == keyboard_event.name
        put == IF key \in DOMAIN generate_hotkeys
               THEN [d EXCEPT !.hotkey_queue = Append(@, generate_hotkeys[key]),
                              !.enqueued     = Append(@, generate_hotkeys[key])]
               ELSE d
    IN  [put EXCEPT !.listener_alive = ~d.stop_event]

(* ------------------------- main.py: edit_images ----------------------- *)

\* The state of edit_images before it is called.  current_rectangle_points
\* is the module-level list; points_image is a history variable giving, for
\* each of its points, the index of the image that was open at the click,
\* and leaked records that a point of an earlier image was used in a
\* rectangle drawn on a later one.
MainIdle ==
    [pc                       |-> "idle",
     index                    |-> 0,
     color                    |-> <<0, 0, 0>>,
     current_image            |-> LoadedPixels,
     image_history            |-> <<>>,
     all_coordinates          |-> <<>>,
     current_rectangle_points |-> <<>>,
     points_image             |-> <<>>,
     leaked                   |-> FALSE,
     edited_images            |-> <<>>,
     json                     |-> <<>>]

\* The body of the for loop up to the while loop, for image number i.
main_open_image(m, i) ==
    [m EXCEPT !.pc              = "editing",
              !.index           = i,
              !.current_image   = LoadedPixels,
              !.image_history   = <<LoadedPixels>>,
              !.all_coordinates = <<>>]

\* draw_rectangle, the mouse callback; params holds the objects of the image
\* that is open.  Returns the state and the exception raised in the callback.
main_draw_rectangle(m, event, x, y) ==
    LET points == Append(m.current_rectangle_points, [x |-> x, y |-> y])
        origin == Append(m.points_image, m.index)
    IN  IF event = EVENT_LBUTTONDOWN
        THEN [image |-> [m EXCEPT !.current_rectangle_points = points,
                                  !.points_image = origin],
              raised |-> "none"]
        ELSE IF Len(points) < 2
             THEN \* the history got its copy; points[1] raises IndexError
                  [image |-> [m EXCEPT !.current_rectangle_points = points,
                                       !.points_image = origin,
                                       !.image_history = Append(@, m.current_image)],
                   raised |-> "IndexError"]
             ELSE [image |-> [m EXCEPT
                       !.current_rectangle_points = <<>>,
                       !.points_image = <<>>,
                       !.image_history = Append(@, m.current_image),
                       !.current_image = cv2_rectangle(@, <<points[1].x, points[1].y>>,
                                                       <<points[2].x, points[2].y>>,
                                                       m.color),
                       !.all_coordinates = Append(@, <<points[1], points[2]>>),
                       !.leaked = @ \/ origin[1] # m.index \/ origin[2] # m.index],
                   raised |-> "none"]

\* The undo branch of the while loop; pop() of an empty list ends the program.
main_undo(m) ==
    IF m.image_history = <<>>
    THEN [image |-> [m EXCEPT !.pc = "crashed"], raised |-> "IndexError"]
    ELSE [image |-> [m EXCEPT
              !.current_image   = m.image_history[Len(m.image_history)],
              !.image_history   = SubSeq(@, 1, Len(@) - 1),
              !.all_coordinates = IF @ # <<>> THEN SubSeq(@, 1, Len(@) - 1) ELSE @],
          raised |-> "none"]

\* The break of the while loop and what follows it: the entry of the image,
\* then the next image, or to_json and the return.
main_next_image(m, paths, hex_color) ==
    LET entry  == [image           |-> paths[m.index],
                   coordinates     |-> m.all_coordinates,
                   rectangle_color |-> hex_color]
        edited == Append(m.edited_images, entry)
    IN  IF m.index < Len(paths)
        THEN main_open_image([m EXCEPT !.edited_images = edited], m.index + 1)
        ELSE [m EXCEPT !.edited_images = edited,
                       !.pc   = "returned",
                       !.json = edited]

ImageIdle == ImageInit(EditingColor)

(* ------------------------------ actions ------------------------------- *)

Init ==
    /\ \E hex_color_code \in Colors : image = ImageInit(hex_color_code)
    /\ heap = << >>
    /\ raised = "none"
    /\ mouse_callback = FALSE
    /\ completions = 0
    /\ undos = 0
    /\ editor = ImageEditorInit(EditingColor)
    /\ files = NoFiles
    /\ driver = DriverIdle
    /\ main = MainIdle
    /\ calls = 0
    /\ last_call = "none"
    /\ keyboard = KeyboardIdle
    /\ rectangle = RectangleIdle
    /\ folder = FolderIdle

\* Applies the outcome of a call; buffers nothing refers to are released.
Apply(out) ==
    /\ image' = out.image
    /\ heap' = Collect(out.heap, Refs(out.image))
    /\ raised' = out.raised

LoadImageFromJpgFile ==
    /\ ~image.is_generated
    /\ Apply(load_image_from_jpg_file(image, heap, JpgFilePath, WindowName))
    /\ UNCHANGED <<rectangle, folder, keyboard, mouse_callback, completions, undos, editor, files, driver, main, calls, last_call>>

\* update() shows the image and registers _draw_rectangle as mouse callback.
Update ==
    /\ Apply(update(image, heap))
    /\ mouse_callback' = (mouse_callback \/ image.is_generated)
    /\ UNCHANGED <<rectangle, folder, keyboard, completions, undos, editor, files, driver, main, calls, last_call>>

LButtonDown(p) ==
    /\ mouse_callback
    /\ num_vertices(image.current_rectangle) < MaxVertices
    /\ Apply(draw_rectangle(image, heap, EVENT_LBUTTONDOWN, p[1], p[2]))
    /\ UNCHANGED <<rectangle, folder, keyboard, mouse_callback, completions, undos, editor, files, driver, main, calls, last_call>>

LButtonUp(p) ==
    /\ mouse_callback
    /\ num_vertices(image.current_rectangle) < MaxVertices
    /\ num_vertices(image.current_rectangle) >= 1 => completions < MaxCompletions
    /\ Apply(draw_rectangle(image, heap, EVENT_LBUTTONUP, p[1], p[2]))
    /\ completions' = IF Len(image'.all_rectangles) > Len(image.all_rectangles)
                      THEN completions + 1 ELSE completions
    /\ UNCHANGED <<rectangle, folder, keyboard, mouse_callback, undos, editor, files, driver, main, calls, last_call>>

Undo ==
    /\ Apply(undo(image, heap))
    /\ undos' = IF raised' = "none" THEN undos + 1 ELSE undos
    /\ UNCHANGED <<rectangle, folder, keyboard, mouse_callback, completions, editor, files, driver, main, calls, last_call>>

MouseDown == \E p \in DownClicks : LButtonDown(p)

MouseUp == \E p \in UpClicks : LButtonUp(p)

Next ==
    \/ LoadImageFromJpgFile
    \/ Update
    \/ MouseDown
    \/ MouseUp
    \/ Undo

Spec == Init /\ [][Next]_vars

(* ----------------- ImageEditor: its methods, any order ---------------- *)

EdInit ==
    /\ image = ImageIdle
    /\ heap = << >>
    /\ raised = "none"
    /\ mouse_callback = FALSE
    /\ completions = 0
    /\ undos = 0
    /\ editor = ImageEditorInit(EditingColor)
    /\ files = NoFiles
    /\ driver = DriverIdle
    /\ main = MainIdle
    /\ calls = 0
    /\ last_call = "none"
    /\ keyboard = KeyboardIdle
    /\ rectangle = RectangleIdle
    /\ folder = FolderIdle

EdApply(name, out) ==
    /\ calls < MaxCalls
    /\ calls' = calls + 1
    /\ last_call' = name
    /\ editor' = out.editor
    /\ heap' = Collect(out.heap, EdRefs(out.editor))
    /\ files' = out.files
    /\ raised' = out.raised

\* The number of rectangles committed on the current image.
EdCommitted(ed) ==
    IF ed.current_image = <<>> THEN 0 ELSE Len(ed.current_image[1].all_rectangles)

EdLoadImageFromJpg(path) ==
    /\ Len(editor.all_modified_images) < MaxImages
    /\ EdApply("load_image_from_jpg", editor_load_image_from_jpg(editor, heap, files, path))
    /\ UNCHANGED <<rectangle, folder, keyboard, image, mouse_callback, completions, undos, driver, main>>

EdLoad == \E i \in 1..Len(jpg_file_paths) : EdLoadImageFromJpg(jpg_file_paths[i])

EdRefresh ==
    /\ EdApply("refresh", editor_refresh(editor, heap, files))
    /\ UNCHANGED <<rectangle, folder, keyboard, image, mouse_callback, completions, undos, driver, main>>

EdLButtonDown(p) ==
    /\ editor.window_shown
    /\ num_vertices(editor.current_image[1].current_rectangle) < MaxVertices
    /\ EdApply("mouse_down", editor_mouse_event(editor, heap, files, EVENT_LBUTTONDOWN, p))
    /\ UNCHANGED <<rectangle, folder, keyboard, image, mouse_callback, completions, undos, driver, main>>

EdLButtonUp(p) ==
    /\ editor.window_shown
    /\ num_vertices(editor.current_image[1].current_rectangle) < MaxVertices
    /\ num_vertices(editor.current_image[1].current_rectangle) >= 1
           => completions < MaxCompletions
    /\ EdApply("mouse_up", editor_mouse_event(editor, heap, files, EVENT_LBUTTONUP, p))
    /\ completions' = IF EdCommitted(editor') > EdCommitted(editor)
                      THEN completions + 1 ELSE completions
    /\ UNCHANGED <<rectangle, folder, keyboard, image, mouse_callback, undos, driver, main>>

EdMouseDown == \E p \in DownClicks : EdLButtonDown(p)

EdMouseUp == \E p \in UpClicks : EdLButtonUp(p)

EdUndo ==
    /\ EdApply("undo", editor_undo(editor, heap, files))
    /\ UNCHANGED <<rectangle, folder, keyboard, image, mouse_callback, completions, undos, driver, main>>

EdSaveCurrentImage ==
    /\ EdApply("save_current_image", save_current_image(editor, heap, files, OutputFolderPath))
    /\ UNCHANGED <<rectangle, folder, keyboard, image, mouse_callback, completions, undos, driver, main>>

\* Image.close destroys the window of the image, so the window was shown.
EdCloseCurrentImage ==
    /\ editor.current_image = <<>> \/ editor.window_shown
    /\ EdApply("close_current_image", close_current_image(editor, heap, files))
    /\ UNCHANGED <<rectangle, folder, keyboard, image, mouse_callback, completions, undos, driver, main>>

EdNext ==
    \/ EdLoad
    \/ EdRefresh
    \/ EdMouseDown
    \/ EdMouseUp
    \/ EdUndo
    \/ EdSaveCurrentImage
    \/ EdCloseCurrentImage

EditorSpec == EdInit /\ [][EdNext]_vars

(* ------------------------------ claims -------------------------------- *)

Live(img, h) == h[img.current_image]

\* The state left by a left-button-down at p followed by a left-button-up at q.
AfterCommit(img, h, p, q) ==
    LET s1 == draw_rectangle(img, h, EVENT_LBUTTONDOWN, p[1], p[2])
    IN  draw_rectangle(s1.image, s1.heap, EVENT_LBUTTONUP, q[1], q[2])

\* C1: from every reachable state of a loaded image, completing one rectangle
\* (left-button-down, then left-button-up) and then undoing once gives back
\* the pixel buffer and the committed rectangle list of that state.
C1_UndoInvertsCommit ==
    image.is_generated =>
        \A p \in DownClicks, q \in UpClicks :
            LET s2 == AfterCommit(image, heap, p, q)
                s3 == undo(s2.image, s2.heap)
            IN  /\ Len(s2.image.all_rectangles) = Len(image.all_rectangles) + 1
                /\ s3.raised = "none"
                /\ Live(s3.image, s3.heap) = Live(image, heap)
                /\ s3.image.all_rectangles = image.all_rectangles

\* A rectangle was committed over an earlier one and then undone.
C1_Witness ==
    /\ completions = 2
    /\ undos = 1
    /\ Len(image.all_rectangles) = 1
    /\ Live(image, heap) # LoadedPixels

\* C2: the history length and the number of committed rectangles both equal
\* the number of completions minus the number of successful undos.
C2_LengthsCountCommits ==
    /\ Len(image.history) = completions - undos
    /\ Len(image.all_rectangles) = completions - undos

\* Two completions and no undo: both lengths are 2.
C2_Witness ==
    /\ completions = 2
    /\ undos = 0
    /\ Len(image.history) = 2
    /\ Len(image.all_rectangles) = 2

\* Another witness of C2's case: completions and undos both happened.
C2_WitnessUndone == completions = 2 /\ undos = 2 /\ image.history = <<>>

\* C3: undo() with an empty history raises UserWarning and changes neither
\* the pixel buffer, the committed rectangles, the in-progress rectangle nor
\* the history; a second call does the same.
C3_EmptyUndoRaises ==
    [][(image.history = <<>> /\ Undo) =>
          /\ raised' = "UserWarning"
          /\ image' = image
          /\ heap' = heap
          /\ undos' = undos
          /\ undo(image', heap') = Outcome(image', heap', "UserWarning")]_vars

\* An undo failed on a loaded image whose rectangles were all undone and
\* which has a rectangle in progress.
C3_Witness ==
    /\ raised = "UserWarning"
    /\ image.is_generated
    /\ image.history = <<>>
    /\ undos >= 1
    /\ num_vertices(image.current_rectangle) = 1

RECURSIVE PaintAll(_, _)
\* The pixels with the rectangles painted over them in list order, each as
\* _draw_rectangle paints it: the box of its first two vertices, in its colour.
PaintAll(pixels, rectangles) ==
    IF rectangles = <<>>
    THEN pixels
    ELSE PaintAll(cv2_rectangle(pixels, Head(rectangles).vertices[1],
                                Head(rectangles).vertices[2],
                                hex_to_rgb(Head(rectangles).color)),
                  Tail(rectangles))

\* C4: the pixel buffer is the loaded image with exactly the rectangles of the
\* committed list painted over it in list order.
C4_NoDrift ==
    image.is_generated =>
        Live(image, heap) = PaintAll(LoadedPixels, image.all_rectangles)

\* After two completions and an undo one painted rectangle is left.
C4_Witness ==
    /\ completions = 2
    /\ undos = 1
    /\ Len(image.all_rectangles) = 1
    /\ \E p \in Coords : Live(image, heap)[p] = <<85, 0, 0>>
    /\ \E p \in Coords : Live(image, heap)[p] = <<255, 255, 255>>

\* C5 (as claimed): a mouse event that calls add_vertex on an in-progress
\* rectangle of 2 vertices raises OverflowError and leaves its vertices as
\* they were.
C5_ThirdVertexRejected ==
    [][\A p \in Clicks :
          (num_vertices(image.current_rectangle) = 2
              /\ (LButtonDown(p) \/ LButtonUp(p))) =>
                 /\ raised' = "OverflowError"
                 /\ image'.current_rectangle = image.current_rectangle]_vars

\* C6 (as claimed): the in-progress rectangle never holds more than 2 vertices.
C6_AtMostTwoVertices == num_vertices(image.current_rectangle) <= 2

\* C7 (as claimed): every committed rectangle, and every rectangle that
\* generate_metadata emits, has exactly 2 vertices.
C7_CommittedHaveTwoVertices ==
    /\ \A i \in 1..Len(image.all_rectangles) :
           num_vertices(image.all_rectangles[i]) = 2
    /\ image.is_generated =>
           LET rectangles == generate_metadata(image, heap).metadata.rectangles
           IN  \A i \in 1..Len(rectangles) : Len(rectangles[i].vertices) = 2

\* C8: a completing left-button-up pushes exactly one snapshot, which holds
\* the pixels and the committed list of before the paint; the rectangle is
\* painted, appended last with its vertices in click order, and the
\* in-progress rectangle is reset.
C8_CommitSnapshotsThenPaints ==
    [][\A p \in Clicks :
          (num_vertices(image.current_rectangle) >= 1 /\ LButtonUp(p)) =>
             LET vertices == Append(image.current_rectangle.vertices, p)
                 snapshot == image'.history[Len(image'.history)]
             IN  /\ Len(image'.history) = Len(image.history) + 1
                 /\ SubSeq(image'.history, 1, Len(image.history)) = image.history
                 /\ heap'[snapshot.image] = Live(image, heap)
                 /\ load_rectangles(snapshot) = image.all_rectangles
                 /\ Live(image', heap') =
                        cv2_rectangle(Live(image, heap), vertices[1], vertices[2],
                                      hex_to_rgb(image.color))
                 /\ image'.all_rectangles =
                        Append(image.all_rectangles,
                               [vertices |-> vertices, color |-> image.color])
                 /\ image'.current_rectangle = Rectangle(image.color)
                 /\ raised' = "none"]_vars

\* A rectangle was completed over an earlier one: the last snapshot holds the
\* earlier rectangle only, and its pixels differ from the live ones.
C8_Witness ==
    /\ Len(image.history) = 2
    /\ Len(image.all_rectangles) = 2
    /\ Len(image.history[2].rectangles) = 1
    /\ heap[image.history[2].image] # Live(image, heap)
    /\ image.current_rectangle.vertices = <<>>

\* C9: a snapshot that stays in the history keeps its pixel buffer and its
\* rectangle list through every step, and the live pixel buffer is never the
\* buffer of a snapshot in the history.
C9_SnapshotsIndependent ==
    [][/\ \A i \in 1..Min(Len(image.history), Len(image'.history)) :
              /\ image'.history[i] = image.history[i]
              /\ heap'[image'.history[i].image] = heap[image.history[i].image]
       /\ \A i \in 1..Len(image'.history) :
              image'.history[i].image # image'.current_image]_vars

\* The live buffer was painted on while an older snapshot was in the history.
C9_Witness ==
    /\ Len(image.history) = 2
    /\ heap[image.history[1].image] = LoadedPixels
    /\ heap[image.history[2].image] # LoadedPixels
    /\ Live(image, heap) # heap[image.history[2].image]

\* C10: a fresh Image (of any colour) loaded from generate_metadata() has a
\* committed rectangle list equal to the original's and equal pixels.
C10_MetadataRoundTrip ==
    image.is_generated =>
        \A hex \in Colors :
            LET md    == generate_metadata(image, heap)
                fresh == load_image_from_metadata(ImageInit(hex), md.metadata)
            IN  /\ fresh.all_rectangles = image.all_rectangles
                /\ Live(fresh, md.heap) = Live(image, heap)
                /\ fresh.current_image # image.current_image

\* Two different rectangles are committed, one of them of three vertices.
C10_Witness ==
    /\ Len(image.all_rectangles) = 2
    /\ image.all_rectangles[1] # image.all_rectangles[2]
    /\ \E i \in 1..2 : num_vertices(image.all_rectangles[i]) = 3
    /\ \E i \in 1..2 :
           image.all_rectangles[i].vertices[1] # image.all_rectangles[i].vertices[2]

(* ---------------------- main.py: edit_images runs --------------------- *)

MainInit ==
    /\ image = ImageIdle
    /\ heap = << >>
    /\ raised = "none"
    /\ mouse_callback = FALSE
    /\ completions = 0
    /\ undos = 0
    /\ editor = ImageEditorInit(EditingColor)
    /\ files = NoFiles
    /\ driver = DriverIdle
    /\ main = MainIdle
    /\ calls = 0
    /\ last_call = "none"
    /\ keyboard = KeyboardIdle
    /\ rectangle = RectangleIdle
    /\ folder = FolderIdle

MainApply(name, m, exc) ==
    /\ calls < MaxCalls
    /\ calls' = calls + 1
    /\ last_call' = name
    /\ main' = m
    /\ raised' = exc
    /\ UNCHANGED <<rectangle, folder, keyboard, image, heap, mouse_callback, completions, undos, editor, files, driver>>

\* edit_images("resources\\images", ..., hex_color="#550000") is called.
MainStart ==
    /\ main.pc = "idle"
    /\ MainApply("edit_images",
                 main_open_image([main EXCEPT !.color = hex_to_rgb(EditingColor)], 1),
                 "none")

MainLButtonDown(p) ==
    /\ main.pc = "editing"
    /\ Len(main.current_rectangle_points) < MaxVertices
    /\ LET out == main_draw_rectangle(main, EVENT_LBUTTONDOWN, p[1], p[2])
       IN  MainApply("mouse_down", out.image, out.raised)

MainLButtonUp(p) ==
    /\ main.pc = "editing"
    /\ Len(main.current_rectangle_points) < MaxVertices
    /\ Len(main.image_history) <= MaxCompletions
    /\ LET out == main_draw_rectangle(main, EVENT_LBUTTONUP, p[1], p[2])
       IN  MainApply("mouse_up", out.image, out.raised)

MainMouseDown == \E p \in DownClicks : MainLButtonDown(p)

MainMouseUp == \E p \in UpClicks : MainLButtonUp(p)

\* The undo key is pressed at the poll and the hotkey delay has passed.
MainUndo ==
    /\ main.pc = "editing"
    /\ LET out == main_undo(main)
       IN  MainApply("undo", out.image, out.raised)

\* The next-image key is pressed at the poll and the hotkey delay has passed.
MainNextImage ==
    /\ main.pc = "editing"
    /\ MainApply("next_image", main_next_image(main, jpg_file_paths, EditingColor), "none")

MainNext ==
    \/ MainStart
    \/ MainMouseDown
    \/ MainMouseUp
    \/ MainUndo
    \/ MainNextImage

MainSpec == MainInit /\ [][MainNext]_vars

(* --------------------------- Driver.run runs -------------------------- *)

DriverInit ==
    /\ image = ImageIdle
    /\ heap = << >>
    /\ raised = "none"
    /\ mouse_callback = FALSE
    /\ completions = 0
    /\ undos = 0
    /\ editor = ImageEditorInit(EditingColor)
    /\ files = NoFiles
    /\ driver = DriverIdle
    /\ main = MainIdle
    /\ calls = 0
    /\ last_call = "none"
    /\ keyboard = KeyboardIdle
    /\ rectangle = RectangleIdle
    /\ folder = FolderIdle

TheWorld == World(driver, editor, heap, files, raised)

DriverApply(name, w) ==
    /\ calls < MaxCalls
    /\ calls' = calls + 1
    /\ last_call' = name
    /\ driver' = w.driver
    /\ editor' = w.editor
    /\ heap' = Collect(w.heap, EdRefs(w.editor))
    /\ files' = w.files
    /\ raised' = w.raised

\* Driver(...).run() is called.
DriverRun ==
    /\ driver.pc = "idle"
    /\ DriverApply("run", run_start(TheWorld, jpg_file_paths))
    /\ UNCHANGED <<rectangle, folder, keyboard, image, mouse_callback, completions, undos, main>>

\* One pass of the loop of run.
DriverTick ==
    /\ driver.pc = "editing"
    /\ DriverApply("tick", run_body(TheWorld, jpg_file_paths))
    /\ UNCHANGED <<rectangle, folder, keyboard, image, mouse_callback, completions, undos, main>>

\* A mouse event delivered to the callback of the window while the loop
\* waits in cv2.waitKey.
DriverLButtonDown(p) ==
    /\ driver.pc = "editing"
    /\ editor.window_shown
    /\ num_vertices(editor.current_image[1].current_rectangle) < MaxVertices
    /\ LET out == editor_mouse_event(editor, heap, files, EVENT_LBUTTONDOWN, p)
       IN  DriverApply("mouse_down",
                       World(driver, out.editor, out.heap, out.files, out.raised))
    /\ UNCHANGED <<rectangle, folder, keyboard, image, mouse_callback, completions, undos, main>>

DriverLButtonUp(p) ==
    /\ driver.pc = "editing"
    /\ editor.window_shown
    /\ num_vertices(editor.current_image[1].current_rectangle) < MaxVertices
    /\ num_vertices(editor.current_image[1].current_rectangle) >= 1
           => completions < MaxCompletions
    /\ LET out == editor_mouse_event(editor, heap, files, EVENT_LBUTTONUP, p)
       IN  DriverApply("mouse_up",
                       World(driver, out.editor, out.heap, out.files, out.raised))
    /\ completions' = IF EdCommitted(editor') > EdCommitted(editor)
                      THEN completions + 1 ELSE completions
    /\ UNCHANGED <<rectangle, folder, keyboard, image, mouse_callback, undos, main>>

DriverMouseDown == \E p \in DownClicks : DriverLButtonDown(p)

DriverMouseUp == \E p \in UpClicks : DriverLButtonUp(p)

\* The listener thread reads a keyboard event.
ListenerReadEvent ==
    \E keyboard_event \in KeyEvents :
        /\ driver.listener_alive
        /\ keyboard_event.name \in DOMAIN generate_hotkeys
               => Len(driver.enqueued) < MaxTokens
        /\ driver' = listener_run(driver, keyboard_event)
        /\ last_call' = "read_event"
        /\ UNCHANGED <<rectangle, folder, keyboard, image, heap, raised, mouse_callback, completions, undos,
                       editor, files, main, calls>>

\* The join of shutdown returns, and sys.exit ends the program.
DriverExit ==
    /\ driver.pc = "joining"
    /\ ~driver.listener_alive
    /\ driver' = [driver EXCEPT !.pc = "exited"]
    /\ last_call' = "exit"
    /\ UNCHANGED <<rectangle, folder, keyboard, image, heap, raised, mouse_callback, completions, undos,
                   editor, files, main, calls>>

DriverNext ==
    \/ DriverRun
    \/ DriverTick
    \/ DriverMouseDown
    \/ DriverMouseUp
    \/ ListenerReadEvent
    \/ DriverExit

DriverSpec == DriverInit /\ [][DriverNext]_vars

\* The thread of run goes on whenever it can; the keyboard owes no event.
DriverFairSpec ==
    /\ DriverSpec
    /\ WF_vars(DriverRun)
    /\ WF_vars(DriverTick)
    /\ WF_vars(DriverExit)

(* ----------------------- HotkeyListener.run runs ---------------------- *)

\* The clock advances in steps of the shortest hotkey delay, 0.125 s.
TimeStep == 125

ListenerInit ==
    /\ image = ImageIdle
    /\ heap = << >>
    /\ raised = "none"
    /\ mouse_callback = FALSE
    /\ completions = 0
    /\ undos = 0
    /\ editor = ImageEditorInit(EditingColor)
    /\ files = NoFiles
    /\ driver = DriverIdle
    /\ main = MainIdle
    /\ calls = 0
    /\ last_call = "none"
    /\ keyboard = KeyboardIdle
    /\ rectangle = RectangleIdle
    /\ folder = FolderIdle

\* start() of the listener thread.
ListenerStart ==
    /\ ~driver.listener_alive
    /\ ~driver.stop_event
    /\ driver' = [driver EXCEPT !.listener_alive = TRUE]
    /\ last_call' = "start"
    /\ UNCHANGED <<rectangle, folder, keyboard, image, heap, raised, mouse_callback, completions, undos,
                   editor, files, main, calls>>

\* A key goes down or up and read_event returns the event to the listener.
ListenerKey(keyboard_event) ==
    /\ driver.listener_alive
    /\ keyboard_event.event_type = "down" <=> keyboard_event.name \notin keyboard.pressed
    /\ keyboard_event.name \in DOMAIN generate_hotkeys
           => Len(driver.enqueued) < MaxTokens
    /\ driver' = listener_run(driver, keyboard_event)
    /\ keyboard' = [keyboard EXCEPT
           !.pressed   = IF keyboard_event.event_type = "down"
                         THEN @ \cup {keyboard_event.name}
                         ELSE @ \ {keyboard_event.name},
           !.put_times = IF Len(driver'.enqueued) > Len(driver.enqueued)
                         THEN Append(@, keyboard.now) ELSE @]
    /\ last_call' = keyboard_event.event_type
    /\ UNCHANGED <<rectangle, folder, image, heap, raised, mouse_callback, completions, undos,
                   editor, files, main, calls>>

ListenerKeyDown ==
    \E name \in KeyNames : ListenerKey([name |-> name, event_type |-> "down"])

ListenerKeyUp ==
    \E name \in KeyNames : ListenerKey([name |-> name, event_type |-> "up"])

\* stop() of the listener thread.
ListenerStop ==
    /\ driver.listener_alive
    /\ ~driver.stop_event
    /\ driver' = [driver EXCEPT !.stop_event = TRUE]
    /\ last_call' = "stop"
    /\ UNCHANGED <<rectangle, folder, keyboard, image, heap, raised, mouse_callback, completions, undos,
                   editor, files, main, calls>>

TimePasses ==
    /\ keyboard.now < MaxTime * TimeStep
    /\ keyboard' = [keyboard EXCEPT !.now = @ + TimeStep]
    /\ last_call' = "time"
    /\ UNCHANGED <<rectangle, folder, image, heap, raised, mouse_callback, completions, undos,
                   editor, files, driver, main, calls>>

ListenerNext ==
    \/ ListenerStart
    \/ ListenerKeyDown
    \/ ListenerKeyUp
    \/ ListenerStop
    \/ TimePasses

ListenerSpec == ListenerInit /\ [][ListenerNext]_vars

(* ------------------- Image with any editing colour -------------------- *)

ColorInit ==
    /\ image \in {ImageInit(hex_color_code) : hex_color_code \in HexCodes}
    /\ heap = << >>
    /\ raised = "none"
    /\ mouse_callback = FALSE
    /\ completions = 0
    /\ undos = 0
    /\ editor = ImageEditorInit(EditingColor)
    /\ files = NoFiles
    /\ driver = DriverIdle
    /\ main = MainIdle
    /\ calls = 0
    /\ last_call = "none"
    /\ keyboard = KeyboardIdle
    /\ rectangle = RectangleIdle
    /\ folder = FolderIdle

\* A left-button-down in one corner and a left-button-up in the opposite one.
ColorMouseDown == LButtonDown(<<0, 1>>)

ColorMouseUp == LButtonUp(<<1, 0>>)

ColorNext ==
    \/ LoadImageFromJpgFile
    \/ Update
    \/ ColorMouseDown
    \/ ColorMouseUp

ColorSpec == ColorInit /\ [][ColorNext]_vars

(* ------------------------ a Rectangle on its own ---------------------- *)

RectangleInit ==
    /\ image = ImageIdle
    /\ heap = << >>
    /\ raised = "none"
    /\ mouse_callback = FALSE
    /\ completions = 0
    /\ undos = 0
    /\ editor = ImageEditorInit(EditingColor)
    /\ files = NoFiles
    /\ driver = DriverIdle
    /\ main = MainIdle
    /\ calls = 0
    /\ last_call = "none"
    /\ keyboard = KeyboardIdle
    /\ rectangle \in {[RectangleIdle EXCEPT !.self = Rectangle(color)] : color \in Colors}
    /\ folder = FolderIdle

\* add_vertex(x, y); a tuple has no append.
RectangleAddVertex ==
    \E p \in Coords :
        /\ Len(rectangle.self.vertices) < MaxVertices
        /\ IF rectangle.vertices_class = "list"
           THEN /\ rectangle' = [rectangle EXCEPT !.self = add_vertex(@, p[1], p[2])]
                /\ raised' = "none"
           ELSE /\ rectangle' = rectangle
                /\ raised' = "AttributeError"
        /\ last_call' = "add_vertex"
        /\ UNCHANGED <<image, heap, mouse_callback, completions, undos, editor, files,
                       driver, main, calls, keyboard, folder>>

\* pop_vertex(); an empty list has nothing to pop and a tuple has no pop.
RectanglePopVertex ==
    /\ IF rectangle.vertices_class = "tuple"
       THEN /\ rectangle' = rectangle
            /\ raised' = "AttributeError"
       ELSE IF rectangle.self.vertices = <<>>
       THEN /\ rectangle' = rectangle
            /\ raised' = "IndexError"
       ELSE /\ rectangle' = [self |-> pop_vertex(rectangle.self),
                             vertices_class |-> "tuple"]
            /\ raised' = "none"
    /\ last_call' = "pop_vertex"
    /\ UNCHANGED <<image, heap, mouse_callback, completions, undos, editor, files,
                   driver, main, calls, keyboard, folder>>

RectangleNext ==
    \/ RectangleAddVertex
    \/ RectanglePopVertex

RectangleSpec == RectangleInit /\ [][RectangleNext]_vars

(* ------------------------- a folder is listed ------------------------- *)

\* The lists os.listdir can return: file names, none twice.
Listings ==
    UNION {{all_files \in [1..n -> FileNames] :
               \A i, j \in 1..n : i # j => all_files[i] # all_files[j]} :
           n \in 0..Min(MaxFiles, Cardinality(FileNames))}

FolderInit ==
    /\ image = ImageIdle
    /\ heap = << >>
    /\ raised = "none"
    /\ mouse_callback = FALSE
    /\ completions = 0
    /\ undos = 0
    /\ editor = ImageEditorInit(EditingColor)
    /\ files = NoFiles
    /\ driver = DriverIdle
    /\ main = MainIdle
    /\ calls = 0
    /\ last_call = "none"
    /\ keyboard = KeyboardIdle
    /\ rectangle = RectangleIdle
    /\ folder = FolderIdle

\* os.listdir(folder_path) returns.
FolderListed ==
    /\ folder.pc = "idle"
    /\ \E all_files \in Listings :
          folder' = [folder EXCEPT !.pc = "listed", !.all_files = all_files]
    /\ last_call' = "listdir"
    /\ UNCHANGED <<image, heap, raised, mouse_callback, completions, undos, editor,
                   files, driver, main, calls, keyboard, rectangle>>

\* get_all_jpg_file_paths returns.
FolderReturned ==
    /\ folder.pc = "listed"
    /\ folder' = [folder EXCEPT
           !.pc = "returned",
           !.jpg_file_paths = get_all_jpg_file_paths(ImageFolderPath, folder.all_files)]
    /\ last_call' = "get_all_jpg_file_paths"
    /\ UNCHANGED <<image, heap, raised, mouse_callback, completions, undos, editor,
                   files, driver, main, calls, keyboard, rectangle>>

FolderNext ==
    \/ FolderListed
    \/ FolderReturned

FolderSpec == FolderInit /\ [][FolderNext]_vars

(* --------------------------- claims, continued ------------------------ *)

\* The current image of the editor (an Image object is open).
EdImage == editor.current_image[1]

\* C11: load_image_from_jpg leaves a current image with no committed
\* rectangle, no history and no vertex in progress, whatever was open before.
C11_LoadResetsAnnotation ==
    [][\A i \in 1..Len(jpg_file_paths) :
          EdLoadImageFromJpg(jpg_file_paths[i]) =>
              /\ Len(editor'.current_image) = 1
              /\ editor'.current_image[1].all_rectangles = <<>>
              /\ editor'.current_image[1].history = <<>>
              /\ editor'.current_image[1].current_rectangle.vertices = <<>>
              /\ editor'.current_image[1].original_file_path = jpg_file_paths[i]
              /\ Live(editor'.current_image[1], heap') = LoadedPixels]_vars

\* An image was opened after an image with a committed rectangle was closed.
C11_Witness ==
    /\ last_call = "load_image_from_jpg"
    /\ Len(editor.all_modified_images) = 1
    /\ editor.all_modified_images[1].all_rectangles # <<>>
    /\ editor.all_modified_images[1].history # <<>>
    /\ editor.current_image # <<>>
    /\ EdImage.all_rectangles = <<>>

\* An image was opened over an open image that had a committed rectangle.
C11_WitnessReplaced ==
    /\ last_call = "load_image_from_jpg"
    /\ editor.all_modified_images = <<>>
    /\ completions = 1
    /\ EdImage.all_rectangles = <<>>

\* C12: in edit_images a vertex clicked on one image and not completed
\* before the advance is never one of the two vertices of a rectangle
\* recorded for, and painted onto, a later image.
C12_IncompleteRectangleDiscarded == ~main.leaked

\* C18: a refresh of the editor (Image.update of the open image) changes
\* none of the pixel buffer, the committed rectangles, the rectangle in
\* progress and the history of the open image, nor the closed images and
\* the written files.
C18_RefreshKeepsAnnotation ==
    [][EdRefresh =>
          /\ editor'.current_image = editor.current_image
          /\ editor'.all_modified_images = editor.all_modified_images
          /\ heap' = heap
          /\ files' = files]_vars

C18_Witness ==
    /\ last_call = "refresh"
    /\ raised = "none"
    /\ editor.current_image # <<>>
    /\ EdImage.all_rectangles # <<>>
    /\ EdImage.history # <<>>
    /\ EdImage.current_rectangle.vertices # <<>>
    /\ Live(EdImage, heap) # LoadedPixels

\* A step of the driver takes a token from the hotkey queue.
Dequeues == Len(driver'.executed) = Len(driver.executed) + 1

\* The token such a step takes.
Dequeued == driver'.executed[Len(driver'.executed)]

\* shutdown has been called.
ShutDown == driver.pc \in {"joining", "exited"}

\* C13: every pass of the loop of Driver.run refreshes the editor first and
\* only then looks at the hotkey queue, and takes and executes at most one
\* token.
C13_RefreshThenAtMostOneToken ==
    [][DriverTick =>
          /\ driver'.tick # <<>>
          /\ driver'.tick[1] = "refresh"
          /\ \A i \in 2..Len(driver'.tick) : driver'.tick[i] = "get"
          /\ Len(driver'.tick) <= 2
          /\ Len(driver'.executed) <= Len(driver.executed) + 1
          /\ Len(driver'.executed) = Len(driver.executed) + Len(driver'.tick) - 1]_vars

C13_Witness ==
    /\ last_call = "tick"
    /\ driver.tick = <<"refresh", "get">>
    /\ driver.hotkey_queue # <<>>

C13_WitnessEmptyQueue ==
    /\ last_call = "tick"
    /\ driver.tick = <<"refresh">>
    /\ driver.pc = "editing"

\* C14: Driver.run leaves image i for image i+1 exactly in the pass that
\* takes a NEXT_IMAGE token while image i is open: that pass saves the
\* image, closes it and opens the next one, and no other step changes the
\* image that is open.
C14_AdvanceExactlyOnNextImage ==
    [][(driver.pc = "editing" /\ driver.index < Len(jpg_file_paths)) =>
          ((DriverTick /\ Dequeues /\ Dequeued.name = "NEXT_IMAGE")
             <=> /\ driver'.pc = "editing"
                 /\ driver'.index = driver.index + 1
                 /\ editor'.current_image # <<>>
                 /\ editor'.current_image[1].original_file_path
                        = jpg_file_paths[driver.index + 1]
                 /\ Len(editor'.all_modified_images) = driver.index
                 /\ path_join(OutputFolderPath, basename(jpg_file_paths[driver.index]))
                        \in DOMAIN files')]_vars

\* C15: when Driver.run ends after a NEXT_IMAGE token for every image, the
\* closed images are the input paths in order, and every input path has
\* its rendered file under the output folder.
C15_AllImagesAdvanced ==
    (/\ driver.pc = "exited"
     /\ Len(driver.enqueued) = Len(jpg_file_paths)
     /\ \A i \in 1..Len(driver.enqueued) : driver.enqueued[i].name = "NEXT_IMAGE")
    => /\ Len(editor.all_modified_images) = Len(jpg_file_paths)
       /\ \A i \in 1..Len(jpg_file_paths) :
             /\ editor.all_modified_images[i].original_file_path = jpg_file_paths[i]
             /\ path_join(OutputFolderPath, basename(jpg_file_paths[i])) \in DOMAIN files

\* C16: after a CLOSE_PROGRAM token was executed while image k was open,
\* the closed images are the k-1 images advanced before it.
C16_CloseProgramDropsCurrent ==
    (/\ ShutDown
     /\ driver.executed # <<>>
     /\ driver.executed[Len(driver.executed)].name = "CLOSE_PROGRAM")
    => Len(editor.all_modified_images) = driver.index - 1

\* C17: the pass that executes a CLOSE_PROGRAM token writes no file and
\* leaves the files written before as they are, and leaves the committed
\* rectangles of the open image as they are, the rectangle in progress not
\* among them.
C17_CloseProgramWritesNothing ==
    [][(DriverTick /\ Dequeues /\ Dequeued.name = "CLOSE_PROGRAM") =>
          /\ files' = files
          /\ \A i \in 1..Len(editor'.all_modified_images) :
                editor'.all_modified_images[i].original_file_path
                    = jpg_file_paths[driver.index]
                => /\ editor'.all_modified_images[i].all_rectangles
                          = EdImage.all_rectangles
                   /\ editor'.all_modified_images[i].current_rectangle
                          = EdImage.current_rectangle
          /\ editor'.current_image # <<>>
                => editor'.current_image[1].all_rectangles = EdImage.all_rectangles]_vars

C17_Witness ==
    /\ ShutDown
    /\ driver.executed = <<Member("CLOSE_PROGRAM")>>
    /\ files = NoFiles
    /\ Len(editor.all_modified_images) = 1
    /\ Len(editor.all_modified_images[1].all_rectangles) = 1
    /\ editor.all_modified_images[1].current_rectangle.vertices # <<>>

\* C19: an undo asked of the editor while no image is open changes nothing
\* and ends with an error the loop of Driver.run reports and survives.
C19_UndoWithoutImageReported ==
    (last_call = "undo" /\ editor.current_image = <<>>) => is_reported(raised)

C21_DebounceEnforced ==
    \A i, j \in 1..Len(driver.enqueued) :
        (i < j /\ driver.enqueued[i] = driver.enqueued[j])
        => keyboard.put_times[j] - keyboard.put_times[i]
               >= PredefinedHotkey[driver.enqueued[i].name].delay

\* C27: undo of Image is last-in-first-out.  Every snapshot of the history
\* holds the pixels and the committed rectangles as they were after the
\* completions before its own; an undo restores the pixels and the committed
\* list of the most recent snapshot, removes that snapshot only, leaves the
\* other snapshots as they are and in order, and leaves the rectangle in
\* progress as it is.
C27_UndoLastInFirstOut ==
    /\ [](image.is_generated =>
            \A i \in 1..Len(image.history) :
               /\ heap[image.history[i].image]
                      = PaintAll(LoadedPixels, SubSeq(image.all_rectangles, 1, i - 1))
               /\ load_rectangles(image.history[i])
                      = SubSeq(image.all_rectangles, 1, i - 1))
    /\ [][(Undo /\ image.history # <<>>) =>
            /\ image'.history = SubSeq(image.history, 1, Len(image.history) - 1)
            /\ \A i \in 1..Len(image'.history) :
                  heap'[image'.history[i].image] = heap[image.history[i].image]
            /\ Live(image', heap') = heap[image.history[Len(image.history)].image]
            /\ image'.all_rectangles
                   = load_rectangles(image.history[Len(image.history)])
            /\ image'.current_rectangle = image.current_rectangle]_vars

\* Two completions and one undo, with a vertex of a rectangle in progress.
C27_Witness ==
    /\ completions = 2
    /\ undos = 1
    /\ Len(image.history) = 1
    /\ num_vertices(image.current_rectangle) = 1
    /\ Live(image, heap) # LoadedPixels

\* The value of a hexadecimal digit, by table.
DigitValue ==
    [c \in HexChars |->
        CASE c = "0" -> 0  [] c = "1" -> 1  [] c = "2" -> 2  [] c = "3" -> 3
          [] c = "4" -> 4  [] c = "5" -> 5  [] c = "6" -> 6  [] c = "7" -> 7
          [] c = "8" -> 8  [] c = "9" -> 9
          [] c \in {"a", "A"} -> 10  [] c \in {"b", "B"} -> 11
          [] c \in {"c", "C"} -> 12  [] c \in {"d", "D"} -> 13
          [] c \in {"e", "E"} -> 14  [] c \in {"f", "F"} -> 15]

\* The triple (R, G, B) of the digit pairs of "#RRGGBB".
Channels(code) ==
    <<16 * DigitValue[code[2]] + DigitValue[code[3]],
      16 * DigitValue[code[4]] + DigitValue[code[5]],
      16 * DigitValue[code[6]] + DigitValue[code[7]]>>

\* C23: hex_to_rgb gives, for a code "#RRGGBB", the values of its three
\* digit pairs in the order R, G, B, each in 0..255; the rectangles of an
\* image are painted in that triple, and "#550000" gives (85, 0, 0).
C23_HexToRgb ==
    /\ hex_to_rgb(image.color) = Channels(image.color)
    /\ \A i \in 1..3 : hex_to_rgb(image.color)[i] \in 0..255
    /\ hex_to_rgb(EditingColor) = <<85, 0, 0>>
    /\ image.is_generated =>
          /\ \A p \in Coords :
                Live(image, heap)[p] \in {LoadedPixels[p], Channels(image.color)}
          /\ image.all_rectangles # <<>> =>
                \E p \in Coords : Live(image, heap)[p] = Channels(image.color)

\* A rectangle was painted in a colour whose three channels differ.
C23_Witness ==
    /\ image.is_generated
    /\ image.all_rectangles # <<>>
    /\ image.color = <<"#", "a", "F", "F", "a", "a", "a">>
    /\ \E p \in Coords : Live(image, heap)[p] = <<175, 250, 170>>

RECURSIVE MainPaintAll(_, _, _)
\* The pixels with the rectangles of a coordinates list painted over them in
\* list order, as draw_rectangle of main.py paints them.
MainPaintAll(pixels, coordinates, color) ==
    IF coordinates = <<>>
    THEN pixels
    ELSE MainPaintAll(cv2_rectangle(pixels,
                                    <<Head(coordinates)[1].x, Head(coordinates)[1].y>>,
                                    <<Head(coordinates)[2].x, Head(coordinates)[2].y>>,
                                    color),
                      Tail(coordinates), color)

\* C22: edit_images returns and writes one entry per listed path, in
\* listing order, and the coordinates of the entry of an image are the
\* rectangles painted on the image, committed and not undone, when the
\* advance key is detected: none for an image advanced without edits.
C22_OneEntryPerImage ==
    /\ [](main.pc = "returned" =>
            /\ main.json = main.edited_images
            /\ Len(main.edited_images) = Len(jpg_file_paths)
            /\ \A i \in 1..Len(jpg_file_paths) :
                  main.edited_images[i].image = jpg_file_paths[i])
    /\ [][MainNextImage =>
            LET entry == main'.edited_images[Len(main'.edited_images)]
            IN  /\ Len(main'.edited_images) = Len(main.edited_images) + 1
                /\ entry.image = jpg_file_paths[main.index]
                /\ MainPaintAll(LoadedPixels, entry.coordinates, main.color)
                       = main.current_image]_vars

\* C25: in edit_images an undo with nothing left to undo changes neither
\* the displayed image nor the coordinates, and the loop goes on.
C25_SurplusUndoIsNoOp ==
    [][(MainUndo /\ main.all_coordinates = <<>>) =>
          /\ main'.pc = "editing"
          /\ main'.current_image = main.current_image
          /\ main'.all_coordinates = <<>>
          /\ raised' = "none"]_vars

\* C26: in edit_images the displayed image is the original with exactly the
\* rectangles of the coordinates list painted over it in list order.
C26_MainNoDrift ==
    main.pc = "editing" =>
        main.current_image
            = MainPaintAll(LoadedPixels, main.all_coordinates, main.color)

\* The pixel buffers of the closed images; every Image object has a buffer
\* of its own, so the buffer tells the objects apart.
ClosedBuffers == {editor.all_modified_images[i].current_image :
                     i \in 1..Len(editor.all_modified_images)}

C24_EmptyUndoTokenRecoverable ==
    [][(DriverTick /\ Dequeues /\ Dequeued.name = "UNDO" /\ EdImage.history = <<>>) =>
          /\ raised' = "UserWarning"
          /\ driver'.pc = "editing"
          /\ editor'.current_image = editor.current_image
          /\ editor'.all_modified_images = editor.all_modified_images
          /\ files' = files]_vars

\* C28: once shutdown was called the program exits, whether or not a key
\* is touched again, and the listener puts no token after its stop().
C28_ShutdownTerminates ==
    /\ (driver.pc = "joining") ~> (driver.pc = "exited")
    /\ [][driver.stop_event => driver'.enqueued = driver.enqueued]_vars

\* C30: an image is open at every pass of the loop of Driver.run, so the
\* refresh of the pass never raises ImageException.
C30_RefreshHasImage ==
    /\ [](driver.pc = "editing" => editor.current_image # <<>>)
    /\ [](raised # "ImageException")
    /\ [][DriverTick => /\ editor.current_image # <<>>
                        /\ driver'.tick[1] = "refresh"
                        /\ raised' # "ImageException"]_vars

\* A pass of the loop after rectangles were drawn, with the loop going on.
C30_Witness ==
    /\ last_call = "tick"
    /\ driver.pc = "editing"
    /\ driver.tick = <<"refresh">>
    /\ editor.window_shown
    /\ EdImage.all_rectangles # <<>>

\* A token was taken and the program shut down, with no exception of refresh.
C30_WitnessToken ==
    /\ last_call = "tick"
    /\ ShutDown
    /\ driver.executed # <<>>
    /\ raised = "AttributeError"

\* C31: pop_vertex on a rectangle of n >= 1 vertices leaves the first n-1
\* vertices, unchanged and in order, and num_vertices() then returns n-1.
C31_PopVertexRemovesLast ==
    [][(/\ rectangle.vertices_class = "list"
        /\ num_vertices(rectangle.self) >= 1
        /\ last_call' = "pop_vertex"
        /\ RectanglePopVertex) =>
          /\ raised' = "none"
          /\ num_vertices(rectangle'.self) = num_vertices(rectangle.self) - 1
          /\ rectangle'.vertices_class = "list"
          /\ rectangle'.self.vertices
                 = SubSeq(rectangle.self.vertices, 1, num_vertices(rectangle.self) - 1)
          /\ rectangle'.self.color = rectangle.self.color]_vars

RECURSIVE JpgPathsOf(_)
\* The paths of the names ending in ".jpg" of a listing, in listing order.
JpgPathsOf(all_files) ==
    IF all_files = <<>>
    THEN <<>>
    ELSE IF /\ Len(Head(all_files)) >= 4
            /\ SubSeq(Head(all_files), Len(Head(all_files)) - 3, Len(Head(all_files)))
                   = <<".", "j", "p", "g">>
         THEN <<ImageFolderPath \o <<"\\">> \o Head(all_files)>> \o JpgPathsOf(Tail(all_files))
         ELSE JpgPathsOf(Tail(all_files))

\* C32: get_all_jpg_file_paths returns the paths of exactly the files of the
\* folder whose names end in ".jpg", in listing order.
C32_OnlyJpgFilesListed ==
    folder.pc = "returned" => folder.jpg_file_paths = JpgPathsOf(folder.all_files)

====
